---- MODULE Spec2Model ----
(***************************************************************************)
(* Model of the streaming data-supply layer of EVA-CLIP                    *)
(* (rei/training/data.py): the multi-source MixingDataLoader with its      *)
(* SharedEpoch counters, the record grouper group_by_keys_nothrow, the     *)
(* shard-level stages detshuffle2 and ResampledShards2, the counts of      *)
(* get_wds_dataset, and the error handling of tarfile_to_samples_nothrow.  *)
(***************************************************************************)
EXTENDS Integers, Sequences, FiniteSets, TLC

\* ------------------------------------------------------------------ bounds
MaxSources == 2     \* number of mixed datasets
MaxBatches == 2     \* declared batch count of one dataloader
MaxEpoch == 2       \* epochs a session is followed for
RngMod == 8         \* size of the modelled generator's state space
MaxEntries == 3     \* archive entries in the stream handed to the grouper
MaxItems == 3       \* shards in the list a shard-level stage works on
MaxIterations == 2  \* iterations followed on one copy of a stage
MaxWorkers == 2     \* dataloader workers of one rank
MaxSamples == 4     \* sample count of one webdataset source
MaxBatchSize == 2   \* args.batch_size
MaxWorldSize == 2   \* args.world_size
MaxShards == 2      \* shards in the stream handed to tarfile_to_samples_nothrow

VARIABLES
    \* configuration of the session (MixingDataLoader.__init__ arguments)
    distributed,        \* args.distributed
    weighted,           \* self.sample_weights is not None
    dataset_type,       \* per source: "webdataset" | "csv"
    dl_num_batches,     \* per source: dataloader.num_batches
    \* fields of MixingDataLoader
    num_datasets,       \* self.num_datasets
    num_batches,        \* self.num_batches
    count,              \* self.count
    current_epoch,      \* self.current_epoch
    dataiters,          \* per source: self.dataiters[i] is "fresh" | "used" | "exhausted"
    \* fields of the sub-pipelines' DataInfo objects
    shared_epoch,       \* per source: data_info.shared_epoch value
    sampler_epoch,      \* per source: data_info.sampler.epoch
    iter_epoch,         \* per source: epoch its active iterator read at creation
    \* the process-wide numpy generator
    np_state,
    \* the generator object of __iter__ and what its caller has seen
    pass,               \* "idle" | "active" | "ended" | "error"
    passStart,          \* self.count when the pass began
    passEpoch,          \* self.current_epoch when the pass began
    yielded,            \* batches yielded by the pass
    pulls,              \* per source: batches the pass has pulled from it
    recreations,        \* iterators recreated during the pass
    replaced,           \* the sources whose self.dataiters[i] the last step has assigned
    lastPull,           \* the pass's last pull: source, round, epoch, recreations, outcome
    emptyFresh,         \* some iterator so far was exhausted before its first batch
    \* comparison of scheduler sessions
    session,            \* 1 for the first session, 2 for the one constructed after it
    probe,              \* the (round, epoch) at which sessions are compared
    seen                \* the first selection made at the probe: source, totalBatches, session

mixVars == <<distributed, weighted, dataset_type, dl_num_batches,
             num_datasets, num_batches, count, current_epoch, dataiters,
             shared_epoch, sampler_epoch, iter_epoch, np_state, pass, passStart,
             passEpoch, yielded, pulls, recreations, replaced, lastPull, emptyFresh>>

sessionVars == <<session, probe, seen>>

VARIABLES
    \* group_by_keys_nothrow: its arguments, its locals and what it has yielded
    data,               \* the stream of filesamples: fname, data, __url__
    suffixes,           \* the allow-list argument: none, or a set of extensions
    pos,                \* position in data of the next filesample
    current_sample,     \* the group being built, or None
    out,                \* the samples yielded so far
    gstate              \* "running" | "done"

groupVars == <<data, suffixes, pos, current_sample, out, gstate>>

VARIABLES
    \* one shard-level stage, detshuffle2 or ResampledShards2, and the stores it reads
    stage,              \* "detshuffle2" | "ResampledShards2"
    bufsize,            \* detshuffle2: self.bufsize
    initial,            \* detshuffle2: self.initial
    seed,               \* detshuffle2: self.seed
    worker_seed,        \* ResampledShards2: self.worker_seed, None or a function of the worker
    deterministic,      \* ResampledShards2: self.deterministic
    nshards,            \* ResampledShards2: self.nshards
    urls,               \* ResampledShards2: self.urls; detshuffle2: the src it is run on
    self_epoch,         \* self.epoch: the SharedEpoch (shared) or an integer (value)
    epoch_store,        \* SharedEpoch.shared_epoch.value
    rng,                \* detshuffle2: the local rng; ResampledShards2: self.rng
    buf,                \* _shuffle: buf
    spos,               \* _shuffle: position in data of the next item
    emitted,            \* what the running iteration has yielded so far
    phase,              \* "new" | "ready" | "running" | "done" | "failed"
    it,                 \* the running iteration: the worker, the epoch read, the seed derived
    iterations,         \* iterations started on this object so far
    epoch0,             \* the epoch argument the object was constructed with
    first               \* the first finished iteration: worker, epoch, seed, output

stageVars == <<stage, bufsize, initial, seed, worker_seed, deterministic, nshards,
               urls, self_epoch, epoch_store, rng, buf, spos, emitted, phase, it,
               iterations, epoch0, first>>

VARIABLES
    \* one call of get_wds_dataset
    wds_args,           \* its arguments and what get_dataset_size returns
    wds_info            \* its outcome, and the counts of the dataloader it returns

pipeVars == <<wds_args, wds_info>>

VARIABLES
    \* tarfile_to_samples_nothrow: the shards of src and the position of
    \* url_opener and tar_file_expander in them
    shards,             \* per shard: its archive's entries and the fault it has
    tpos,               \* the shard being opened or expanded
    epos,               \* position in that shard's archive of the next entry
    tstate              \* "next" | "reading" | "ended"

tarVars == <<shards, tpos, epos, tstate>>

\* the variables of the components of one single-source pipeline
wdsVars == <<stageVars, pipeVars, tarVars>>

vars == <<mixVars, sessionVars, groupVars, wdsVars>>

\* ------------------------------------------------------- MixingDataLoader
Sources == 0..(num_datasets - 1)

RECURSIVE SumFirst(_, _)
\* sum([f[0], ..., f[n-1]])
SumFirst(f, n) == IF n = 0 THEN 0 ELSE f[n - 1] + SumFirst(f, n - 1)

\* DataInfo.shared_epoch is not None: only get_wds_dataset creates one
HasSharedEpoch(i) == dataset_type[i] = "webdataset"

\* DataInfo.sampler is a DistributedSampler: get_csv_dataset, distributed training
HasSampler(i) == dataset_type[i] = "csv" /\ distributed

\* args.batch_size * args.world_size of the modelled run
global_batch_size == 1

\* dataloader.num_samples: the declared batches times the global batch size
dl_num_samples == [i \in Sources |-> dl_num_batches[i] * global_batch_size]

\* self.num_samples
num_samples == SumFirst(dl_num_samples, num_datasets)

\* np.random.seed(s): the state is a function of the seed alone
SeedState(s) == s % RngMod

\* one step of the generator; the uniform variate drawn is NextState(x) / RngMod
NextState(x) == (5 * x + 3) % RngMod

\* np.random.choice(range(n), p=sample_weights) from state x: the first index
\* whose cumulative weight exceeds the uniform variate
Choice(x) ==
    CHOOSE i \in Sources :
        /\ NextState(x) * num_samples < RngMod * SumFirst(dl_num_samples, i + 1)
        /\ \A j \in Sources : j < i =>
              ~(NextState(x) * num_samples < RngMod * SumFirst(dl_num_samples, j + 1))

\* stable_random_seed
StableRandomSeed == count + num_batches * current_epoch

\* the state np.random.choice draws from, after np.random.seed(stable_random_seed)
SeededState == SeedState(StableRandomSeed)

\* iter_index drawn without np.random.seed(stable_random_seed)
IterIndexUnseeded == IF weighted THEN Choice(np_state) ELSE count % num_datasets

\* iter_index taken from the round after the increment
IterIndexNextRound == IF weighted THEN Choice(SeededState) ELSE (count + 1) % num_datasets

\* iter_index following the declared batch counts: each source in turn for
\* as many rounds as its dataloader declares
IterIndexByDeclared ==
    IF weighted THEN Choice(SeededState)
    ELSE IF count < num_batches
         THEN CHOOSE i \in Sources :
                  /\ count < SumFirst(dl_num_batches, i + 1)
                  /\ \A j \in Sources : j < i => count >= SumFirst(dl_num_batches, j + 1)
         ELSE 0

\* iter_index
IterIndex == IF weighted THEN Choice(SeededState) ELSE count % num_datasets

\* the effect of selection on the process-wide generator
SelectRng == np_state' = IF weighted THEN NextState(SeededState) ELSE np_state

\* DataInfo.set_epoch(epoch) on sub-pipeline i
SetEpochCounter(i, epoch) == IF HasSharedEpoch(i) THEN epoch ELSE shared_epoch[i]
SetEpochSampler(i, epoch) == IF HasSampler(i) THEN epoch ELSE sampler_epoch[i]

\* set_epoch handed the round counter, already reset, instead of the epoch
PropagateRound(epoch) ==
    IF distributed
    THEN /\ shared_epoch' = [i \in Sources |-> SetEpochCounter(i, 0)]
         /\ sampler_epoch' = [i \in Sources |-> SetEpochSampler(i, 0)]
    ELSE UNCHANGED <<shared_epoch, sampler_epoch>>

\* for data_info in self.data_train: data_info.set_epoch(epoch), under its guard
Propagate(epoch) ==
    IF distributed
    THEN /\ shared_epoch' = [i \in Sources |-> SetEpochCounter(i, epoch)]
         /\ sampler_epoch' = [i \in Sources |-> SetEpochSampler(i, epoch)]
    ELSE UNCHANGED <<shared_epoch, sampler_epoch>>

NotSeen == [idx |-> -1, total |-> 0, session |-> 0]

NoProbe == [round |-> -1, epoch |-> -1]

NoPull == [idx |-> -1, round |-> 0, epoch |-> 0, recreated |-> 0, ok |-> FALSE]

InitMix ==
    /\ num_datasets \in 1..MaxSources
    /\ distributed \in BOOLEAN
    /\ weighted \in BOOLEAN
    /\ dataset_type \in [Sources -> {"webdataset", "csv"}]
    /\ dl_num_batches \in [Sources -> 0..MaxBatches]
    \* a webdataset source rounds its batch count up from a positive sample count
    /\ \A i \in Sources : dataset_type[i] = "webdataset" => dl_num_batches[i] >= 1
    /\ num_batches = SumFirst(dl_num_batches, num_datasets)
    \* the weights divide by self.num_samples: no session without a sample
    /\ weighted => num_samples > 0
    /\ count = 0
    /\ current_epoch \in 0..1
    /\ dataiters = [i \in Sources |-> "fresh"]
    /\ emptyFresh = FALSE
    /\ shared_epoch = [i \in Sources |-> current_epoch]
    /\ sampler_epoch = [i \in Sources |-> IF HasSampler(i) THEN current_epoch ELSE 0]
    /\ iter_epoch = [i \in Sources |-> current_epoch]
    /\ np_state = 0
    /\ pass = "idle"
    /\ passStart = 0
    /\ passEpoch = current_epoch
    /\ yielded = 0
    /\ pulls = [i \in Sources |-> 0]
    /\ recreations = 0
    /\ replaced = {}
    /\ lastPull = NoPull
    /\ session = 1
    /\ seen = NotSeen

config == <<distributed, weighted, dataset_type, dl_num_batches,
            num_datasets, num_batches>>

\* a pass that begins with "self.count = 0"
StartPassFromZero ==
    /\ pass # "active"
    /\ pass' = "active"
    /\ count' = 0
    /\ passStart' = 0
    /\ passEpoch' = current_epoch
    /\ yielded' = 0
    /\ pulls' = [i \in Sources |-> 0]
    /\ recreations' = 0
    /\ lastPull' = NoPull
    /\ UNCHANGED <<groupVars, wdsVars, session, probe, seen>>
    /\ UNCHANGED <<config, current_epoch, dataiters, shared_epoch,
                   sampler_epoch, iter_epoch, np_state, emptyFresh>>
    /\ replaced' = {}

\* iter(mixing_loader): a new generator object; nothing of __iter__ has run yet
StartPass ==
    /\ pass # "active"
    /\ pass' = "active"
    /\ passStart' = count
    /\ passEpoch' = current_epoch
    /\ yielded' = 0
    /\ pulls' = [i \in Sources |-> 0]
    /\ recreations' = 0
    /\ lastPull' = NoPull
    /\ UNCHANGED <<groupVars, wdsVars, session, probe, seen>>
    /\ UNCHANGED <<config, count, current_epoch, dataiters, shared_epoch,
                   sampler_epoch, iter_epoch, np_state, emptyFresh>>
    /\ replaced' = {}

\* the caller stops pulling and drops the generator before it has ended
Abandon ==
    /\ pass = "active"
    /\ pass' = "idle"
    /\ passStart' = 0
    /\ passEpoch' = current_epoch
    /\ yielded' = 0
    /\ pulls' = [i \in Sources |-> 0]
    /\ recreations' = 0
    /\ lastPull' = NoPull
    /\ UNCHANGED <<groupVars, wdsVars, session, probe, seen>>
    /\ UNCHANGED <<config, count, current_epoch, dataiters, shared_epoch,
                   sampler_epoch, iter_epoch, np_state, emptyFresh>>
    /\ replaced' = {}

\* the boundary without "self.count = 0"
BoundaryNoReset ==
    /\ pass = "active"
    /\ count = num_batches
    /\ current_epoch < MaxEpoch
    /\ current_epoch' = current_epoch + 1
    /\ Propagate(current_epoch + 1)
    /\ pass' = "ended"
    /\ UNCHANGED <<groupVars, wdsVars, session, probe, seen>>
    /\ UNCHANGED <<config, count, dataiters, iter_epoch, np_state, passStart,
                   passEpoch, yielded, pulls, recreations, lastPull, emptyFresh>>
    /\ replaced' = {}

\* the boundary without "return": the loop goes on into the next epoch
BoundaryNoReturn ==
    /\ pass = "active"
    /\ count = num_batches
    /\ current_epoch < MaxEpoch
    /\ current_epoch' = current_epoch + 1
    /\ count' = 0
    /\ Propagate(current_epoch + 1)
    /\ UNCHANGED <<groupVars, wdsVars, session, probe, seen>>
    /\ UNCHANGED <<config, dataiters, iter_epoch, np_state, pass, passStart,
                   passEpoch, yielded, pulls, recreations, lastPull, emptyFresh>>
    /\ replaced' = {}

\* a boundary that also opens a new iterator on every dataloader
BoundaryRecreates ==
    /\ pass = "active"
    /\ count = num_batches
    /\ current_epoch < MaxEpoch
    /\ current_epoch' = current_epoch + 1
    /\ count' = 0
    /\ Propagate(current_epoch + 1)
    /\ pass' = "ended"
    /\ dataiters' = [i \in Sources |-> "fresh"]
    /\ replaced' = Sources
    /\ iter_epoch' = shared_epoch'
    /\ UNCHANGED <<groupVars, wdsVars, session, probe, seen>>
    /\ UNCHANGED <<config, np_state, passStart, passEpoch, yielded, pulls,
                   recreations, lastPull, emptyFresh>>

\* next(): self.count == self.num_batches, the epoch boundary, then return
Boundary ==
    /\ pass = "active"
    /\ count = num_batches
    /\ current_epoch < MaxEpoch
    /\ current_epoch' = current_epoch + 1
    /\ count' = 0
    /\ Propagate(current_epoch + 1)
    /\ pass' = "ended"
    /\ UNCHANGED <<groupVars, wdsVars, session, probe, seen>>
    /\ UNCHANGED <<config, dataiters, iter_epoch, np_state, passStart, passEpoch,
                   yielded, pulls, recreations, lastPull, emptyFresh>>
    /\ replaced' = {}

\* self.dataiters[i] = iter(self.dataloaders[i]): the workers of the new
\* iterator read the sub-pipeline's epoch counter as they start
Recreate(i) ==
    /\ iter_epoch' = [iter_epoch EXCEPT ![i] = shared_epoch[i]]
    /\ recreations' = recreations + 1
    /\ replaced' = {i}

\* the selection of source i is recorded if it is the first at the probe
Observe(i) ==
    seen' = IF seen.idx = -1 /\ count = probe.round /\ current_epoch = probe.epoch
            THEN [idx |-> i, total |-> num_batches, session |-> session]
            ELSE seen

\* self.count += 1; yield batch
CountAndYield(i, recreated) ==
    /\ count' = count + 1
    /\ yielded' = yielded + 1
    /\ pulls' = [pulls EXCEPT ![i] = @ + 1]
    /\ lastPull' = [idx |-> i, round |-> count, epoch |-> current_epoch,
                    recreated |-> recreated, ok |-> TRUE]

\* next(): the selected iterator has a batch; count it and yield it
PullBatch ==
    /\ pass = "active"
    /\ count # num_batches
    /\ dataiters[IterIndex] # "exhausted"
    /\ SelectRng
    /\ Observe(IterIndex)
    /\ dataiters' = [dataiters EXCEPT ![IterIndex] = "used"]
    /\ CountAndYield(IterIndex, 0)
    /\ UNCHANGED <<groupVars, wdsVars, session, probe>>
    /\ UNCHANGED <<config, current_epoch, shared_epoch, sampler_epoch, iter_epoch,
                   pass, passStart, passEpoch, recreations, emptyFresh>>
    /\ replaced' = {}

\* no except clause: the first StopIteration leaves the generator as an error
PullNoRetry ==
    /\ pass = "active"
    /\ count # num_batches
    /\ SelectRng
    /\ Observe(IterIndex)
    /\ dataiters' = [dataiters EXCEPT ![IterIndex] = "exhausted"]
    /\ emptyFresh' = (emptyFresh \/ dataiters[IterIndex] = "fresh")
    /\ pass' = "error"
    /\ lastPull' = [idx |-> IterIndex, round |-> count, epoch |-> current_epoch,
                    recreated |-> 0, ok |-> FALSE]
    /\ UNCHANGED <<groupVars, wdsVars, session, probe>>
    /\ UNCHANGED <<config, count, current_epoch, shared_epoch, sampler_epoch,
                   iter_epoch, passStart, passEpoch, yielded, pulls, recreations>>
    /\ replaced' = {}

\* next(): StopIteration from the selected iterator, a fresh iterator over the
\* same dataloader has a batch; count it and yield it
PullRefreshed ==
    /\ pass = "active"
    /\ count # num_batches
    /\ SelectRng
    /\ Observe(IterIndex)
    /\ Recreate(IterIndex)
    /\ dataiters' = [dataiters EXCEPT ![IterIndex] = "used"]
    /\ emptyFresh' = (emptyFresh \/ dataiters[IterIndex] = "fresh")
    /\ CountAndYield(IterIndex, 1)
    /\ UNCHANGED <<groupVars, wdsVars, session, probe>>
    /\ UNCHANGED <<config, current_epoch, shared_epoch, sampler_epoch,
                   pass, passStart, passEpoch>>

\* the second StopIteration taken for the end of the generator
PullFatalSilent ==
    /\ pass = "active"
    /\ count # num_batches
    /\ SelectRng
    /\ Observe(IterIndex)
    /\ Recreate(IterIndex)
    /\ dataiters' = [dataiters EXCEPT ![IterIndex] = "exhausted"]
    /\ emptyFresh' = TRUE
    /\ pass' = "ended"
    /\ lastPull' = [idx |-> IterIndex, round |-> count, epoch |-> current_epoch,
                    recreated |-> 1, ok |-> FALSE]
    /\ UNCHANGED <<groupVars, wdsVars, session, probe>>
    /\ UNCHANGED <<config, count, current_epoch, shared_epoch, sampler_epoch,
                   passStart, passEpoch, yielded, pulls>>

\* next(): StopIteration from the selected iterator and again from the fresh
\* one, raised inside the except clause: it leaves the generator as RuntimeError
PullFatal ==
    /\ pass = "active"
    /\ count # num_batches
    /\ SelectRng
    /\ Observe(IterIndex)
    /\ Recreate(IterIndex)
    /\ dataiters' = [dataiters EXCEPT ![IterIndex] = "exhausted"]
    /\ emptyFresh' = TRUE
    /\ pass' = "error"
    /\ lastPull' = [idx |-> IterIndex, round |-> count, epoch |-> current_epoch,
                    recreated |-> 1, ok |-> FALSE]
    /\ UNCHANGED <<groupVars, wdsVars, session, probe>>
    /\ UNCHANGED <<config, count, current_epoch, shared_epoch, sampler_epoch,
                   passStart, passEpoch, yielded, pulls>>

Next ==
    \/ StartPass
    \/ Abandon
    \/ Boundary
    \/ PullBatch
    \/ PullRefreshed
    \/ PullFatal

\* MixingDataLoader.__init__ once more, in a new process, after the first
\* session's generator was dropped: the second session, over sources with the
\* same sample weights, resumed at any epoch
Restart ==
    /\ session = 1
    /\ pass = "idle"
    /\ session' = session + 1
    /\ \E nb \in [Sources -> 0..MaxBatches] :
          /\ \A i \in Sources : dataset_type[i] = "webdataset" => nb[i] >= 1
          /\ \A i, j \in Sources : nb[i] * dl_num_batches[j] = nb[j] * dl_num_batches[i]
          /\ SumFirst(nb, num_datasets) > 0
          /\ dl_num_batches' = nb
          /\ num_batches' = SumFirst(nb, num_datasets)
    /\ count' = 0
    /\ current_epoch' \in 0..MaxEpoch
    /\ dataiters' = [i \in Sources |-> "fresh"]
    /\ emptyFresh' = FALSE
    /\ shared_epoch' = [i \in Sources |-> current_epoch']
    /\ sampler_epoch' = [i \in Sources |-> IF HasSampler(i) THEN current_epoch' ELSE 0]
    /\ iter_epoch' = [i \in Sources |-> current_epoch']
    /\ np_state' \in 0..(RngMod - 1)
    /\ pass' = "idle"
    /\ passStart' = 0
    /\ passEpoch' = current_epoch'
    /\ yielded' = 0
    /\ pulls' = [i \in Sources |-> 0]
    /\ recreations' = 0
    /\ replaced' = {}
    /\ lastPull' = NoPull
    /\ UNCHANGED <<distributed, weighted, dataset_type, num_datasets, probe, seen,
                   groupVars, wdsVars>>

\* -------------------------------------------------- group_by_keys_nothrow
\* file names, as the character sequences base_plus_ext splits
Name_a_jpg == <<"a", ".", "j", "p", "g">>
Name_a_JPG == <<"a", ".", "J", "P", "G">>
Name_a_txt == <<"a", ".", "t", "x", "t">>
Name_b_jpg == <<"b", ".", "j", "p", "g">>
Name_d_a_jpg == <<"d", "/", "a", ".", "j", "p", "g">>
Name_a == <<"a">>

Names == {Name_a_jpg, Name_a_JPG, Name_a_txt, Name_b_jpg, Name_d_a_jpg, Name_a}

Ext_jpg == <<"j", "p", "g">>
Ext_txt == <<"t", "x", "t">>

\* str.lower() on one character
LowerChar(c) ==
    CASE c = "J" -> "j"
      [] c = "P" -> "p"
      [] c = "G" -> "g"
      [] OTHER -> c

\* suffix.lower()
Lower(str) == [i \in 1..Len(str) |-> LowerChar(str[i])]

Max(S) == CHOOSE x \in S : \A y \in S : y <= x
Min(S) == CHOOSE x \in S : \A y \in S : x <= y

\* positions of "/" in a name, and 0 for its start
Cuts(name) == {0} \cup {i \in 1..Len(name) : name[i] = "/"}

\* positions of a "." after the last "/"
Dots(name) == {i \in 1..Len(name) : name[i] = "." /\ i > Max(Cuts(name))}

\* re.match(r"^((?:.*/|)[^.]+)[.]([^/]*)$", name): a directory part, a
\* non-empty dot-free base, the first dot after the last "/", the extension
Matches(name) ==
    /\ Dots(name) # {}
    /\ \E c \in Cuts(name) :
          /\ c + 1 < Min(Dots(name))
          /\ \A i \in (c + 1)..(Min(Dots(name)) - 1) : name[i] # "."

\* base_plus_ext(name): (prefix, suffix), or (None, None) without a match
base_plus_ext(name) ==
    IF Matches(name)
    THEN [none |-> FALSE,
          prefix |-> SubSeq(name, 1, Min(Dots(name)) - 1),
          suffix |-> SubSeq(name, Min(Dots(name)) + 1, Len(name))]
    ELSE [none |-> TRUE, prefix |-> <<>>, suffix |-> <<>>]

\* None, and dict(__key__=prefix, __url__=url): the content fields are kept
\* apart from the two bookkeeping keys
NoneSample == [none |-> TRUE, key |-> <<>>, url |-> "", fields |-> <<>>]

NewSample(prefix, url) == [none |-> FALSE, key |-> prefix, url |-> url, fields |-> <<>>]

\* len(list(sample.keys())) of a sample that is not None
NumKeys(sample) == 2 + Cardinality(DOMAIN sample.fields)

\* webdataset's valid_sample(sample), on samples without a __bad__ key
valid_sample(sample) == ~sample.none /\ NumKeys(sample) > 0

\* sample[suffix] = value
SetField(sample, suffix, value) ==
    [sample EXCEPT !.fields = [x \in (DOMAIN @) \cup {suffix} |->
                                  IF x = suffix THEN value ELSE @[x]]]

\* if suffixes is None or suffix in suffixes: current_sample[suffix] = value
StoreAllowed(sample, suffix, value) ==
    IF suffixes.none \/ suffix \in suffixes.set
    THEN SetField(sample, suffix, value)
    ELSE sample

\* the filesample being read and its split name
Entry == data[pos]
Split == base_plus_ext(Entry.fname)
Suffix == Lower(Split.suffix)

\* the condition for a new group without "or suffix in current_sample"
StartsNewGroupNoDuplicate ==
    \/ current_sample.none
    \/ Split.prefix # current_sample.key

\* current_sample is None or prefix != current_sample["__key__"]
\* or suffix in current_sample
StartsNewGroup ==
    \/ current_sample.none
    \/ Split.prefix # current_sample.key
    \/ Suffix \in DOMAIN current_sample.fields

\* what "if valid_sample(current_sample): yield current_sample" adds to out
Yielded == IF valid_sample(current_sample) THEN Append(out, current_sample) ELSE out

NoSuffixes == [none |-> TRUE, set |-> {}]

\* streams of MaxEntries entries at most, read from one shard or from two
\* shards one after the other, each payload different from the others
InitGroup ==
    /\ \E n \in 0..MaxEntries : \E names \in [1..n -> Names] : \E cut \in 0..n :
          data = [i \in 1..n |-> [fname |-> names[i], data |-> i,
                                  url |-> IF i <= cut THEN "s1" ELSE "s2"]]
    /\ suffixes \in {NoSuffixes, [none |-> FALSE, set |-> {Ext_jpg}],
                     [none |-> FALSE, set |-> {Ext_txt}]}
    /\ pos = 1
    /\ current_sample = NoneSample
    /\ out = <<>>
    /\ gstate = "running"

\* no grouper runs
GroupIdle ==
    /\ data = <<>>
    /\ suffixes = NoSuffixes
    /\ pos = 1
    /\ current_sample = NoneSample
    /\ out = <<>>
    /\ gstate = "done"

\* no scheduler runs
MixIdle ==
    /\ num_datasets = 1
    /\ distributed = FALSE
    /\ weighted = FALSE
    /\ dataset_type = [i \in Sources |-> "webdataset"]
    /\ dl_num_batches = [i \in Sources |-> 1]
    /\ num_batches = 1
    /\ count = 0
    /\ current_epoch = 0
    /\ dataiters = [i \in Sources |-> "fresh"]
    /\ emptyFresh = FALSE
    /\ shared_epoch = [i \in Sources |-> 0]
    /\ sampler_epoch = [i \in Sources |-> 0]
    /\ iter_epoch = [i \in Sources |-> 0]
    /\ np_state = 0
    /\ pass = "idle"
    /\ passStart = 0
    /\ passEpoch = 0
    /\ yielded = 0
    /\ pulls = [i \in Sources |-> 0]
    /\ recreations = 0
    /\ replaced = {}
    /\ lastPull = NoPull
    /\ session = 1
    /\ seen = NotSeen
    /\ probe = NoProbe

\* a skipped entry that also drops the group being collected
GroupSkipDropsGroup ==
    /\ gstate = "running"
    /\ pos <= Len(data)
    /\ Split.none
    /\ pos' = pos + 1
    /\ current_sample' = NoneSample
    /\ UNCHANGED <<data, suffixes, out, gstate, mixVars, sessionVars, wdsVars>>

\* one turn of the loop: prefix is None, continue
GroupSkip ==
    /\ gstate = "running"
    /\ pos <= Len(data)
    /\ Split.none
    /\ pos' = pos + 1
    /\ UNCHANGED <<data, suffixes, current_sample, out, gstate, mixVars, sessionVars, wdsVars>>

\* one turn of the loop: the group is closed and yielded, a new one is
\* created from this entry and the entry's payload stored in it
GroupNew ==
    /\ gstate = "running"
    /\ pos <= Len(data)
    /\ ~Split.none
    /\ StartsNewGroup
    /\ out' = Yielded
    /\ current_sample' = StoreAllowed(NewSample(Split.prefix, Entry.url), Suffix, Entry.data)
    /\ pos' = pos + 1
    /\ UNCHANGED <<data, suffixes, gstate, mixVars, sessionVars, wdsVars>>

\* one turn of the loop: the entry's payload is stored in the current group
GroupAdd ==
    /\ gstate = "running"
    /\ pos <= Len(data)
    /\ ~Split.none
    /\ ~StartsNewGroup
    /\ current_sample' = StoreAllowed(current_sample, Suffix, Entry.data)
    /\ pos' = pos + 1
    /\ UNCHANGED <<data, suffixes, out, gstate, mixVars, sessionVars, wdsVars>>

\* the end of the stream without the last "yield current_sample"
GroupEndNoYield ==
    /\ gstate = "running"
    /\ pos = Len(data) + 1
    /\ gstate' = "done"
    /\ UNCHANGED <<data, suffixes, pos, current_sample, out, mixVars, sessionVars, wdsVars>>

\* the end of the stream: the last group is yielded
GroupEnd ==
    /\ gstate = "running"
    /\ pos = Len(data) + 1
    /\ out' = Yielded
    /\ gstate' = "done"
    /\ UNCHANGED <<data, suffixes, pos, current_sample, mixVars, sessionVars, wdsVars>>

NextGroup ==
    \/ GroupSkip
    \/ GroupNew
    \/ GroupAdd
    \/ GroupEnd


\* ------------------------------------------ detshuffle2, ResampledShards2
\* the processes that hold a copy of the stage: the dataloader workers
\* 0..MaxWorkers-1, and the main process -1 in which get_worker_info() is None
Workers == (-1)..(MaxWorkers - 1)

\* worker_info.num_workers
num_workers == MaxWorkers

\* worker_info.seed: torch gives worker w the loader's base seed plus w
torch_base_seed == 4
worker_info_seed(w) == torch_base_seed + w

\* wds.utils.pytorch_worker_seed() of the main process of rank 0
wds_worker_seed == 0

\* pytorch_worker_seed(increment) called in process w
pytorch_worker_seed(w, increment) ==
    IF w >= 0
    THEN IF increment # 0
         THEN worker_info_seed(w) + increment * Max({1, num_workers})
         ELSE worker_info_seed(w)
    ELSE wds_worker_seed

\* the functions self.worker_seed may be: the same value in every process, or
\* a value of the process
WorkerSeedFns == {[w \in Workers |-> 0], [w \in Workers |-> w + 1]}

NoWorkerSeed == [none |-> TRUE, fn |-> [w \in Workers |-> 0]]

\* isinstance(self.epoch, SharedEpoch): epoch = self.epoch.get_value()
\* else: self.epoch += 1; epoch = self.epoch
EpochAdvanced == IF self_epoch.shared THEN self_epoch ELSE [self_epoch EXCEPT !.value = @ + 1]

EpochRead == IF self_epoch.shared THEN epoch_store ELSE EpochAdvanced.value

\* random.Random(): a generator in a state of the operating system's choosing,
\* which is chosen here when the generator is first used
Unseeded == -1
FreshStates == 0..(RngMod - 1)
StatesOf(r) == IF r = Unseeded THEN FreshStates ELSE {r}

NoIteration == [worker |-> -1, epoch |-> -1, seed |-> -1, seeded |-> FALSE]

NoFirst == [none |-> TRUE, worker |-> -1, epoch |-> -1, seed |-> -1, out |-> <<>>]

\* what the end of an iteration leaves for the comparison of iterations
Recorded ==
    IF first.none
    THEN [none |-> FALSE, worker |-> it.worker, epoch |-> it.epoch,
          seed |-> it.seed, out |-> emitted]
    ELSE first

\* shard lists of MaxItems distinct shards at most
ShardLists == {[i \in 1..n |-> i] : n \in 0..MaxItems}

\* a stage object before its constructor has run, in one process
InitStage ==
    /\ stage \in {"detshuffle2", "ResampledShards2"}
    /\ urls \in ShardLists
    /\ \E shared \in BOOLEAN, v \in (-1)..0 :
          /\ self_epoch = [shared |-> shared, value |-> IF shared THEN 0 ELSE v]
          /\ epoch0 = self_epoch.value
    /\ epoch_store = 0
    /\ IF stage = "detshuffle2"
       THEN /\ bufsize \in 0..MaxItems
            /\ initial \in 1..MaxItems
            /\ seed \in (-1)..1
            /\ worker_seed = NoWorkerSeed
            /\ deterministic = FALSE
            /\ nshards = 0
       ELSE /\ bufsize = 0
            /\ initial = 0
            /\ seed = 0
            /\ worker_seed \in {NoWorkerSeed} \cup {[none |-> FALSE, fn |-> f] : f \in WorkerSeedFns}
            /\ deterministic \in BOOLEAN
            \* self.worker_seed is read by deterministic iterations only
            /\ ~deterministic => worker_seed = NoWorkerSeed
            /\ nshards \in 0..MaxItems
    /\ rng = Unseeded
    /\ buf = <<>>
    /\ spos = 1
    /\ emitted = <<>>
    /\ phase = "new"
    /\ it \in {[NoIteration EXCEPT !.worker = w] : w \in Workers}
    /\ iterations = 0
    /\ first = NoFirst

\* no stage runs
StageIdle ==
    /\ stage = "detshuffle2"
    /\ urls = <<>>
    /\ self_epoch = [shared |-> TRUE, value |-> 0]
    /\ epoch0 = 0
    /\ epoch_store = 0
    /\ bufsize = 1
    /\ initial = 1
    /\ seed = 0
    /\ worker_seed = NoWorkerSeed
    /\ deterministic = FALSE
    /\ nshards = 0
    /\ rng = Unseeded
    /\ buf = <<>>
    /\ spos = 1
    /\ emitted = <<>>
    /\ phase = "done"
    /\ it = NoIteration
    /\ iterations = 0
    /\ first = NoFirst

stageConfig == <<stage, bufsize, initial, seed, worker_seed, deterministic,
                 nshards, urls, epoch0>>

notStage == <<mixVars, sessionVars, groupVars, pipeVars, tarVars>>

\* detshuffle2.__init__: the arguments are stored
detshuffle2_init ==
    /\ stage = "detshuffle2"
    /\ phase = "new"
    /\ phase' = "ready"
    /\ UNCHANGED <<stageConfig, self_epoch, epoch_store, rng, buf, spos, emitted,
                   it, iterations, first, notStage>>

\* the seed of run taken from the worker whatever self.seed is
RunSeedOfWorker(w, e) == pytorch_worker_seed(w, e)

\* the seed of run in process w at epoch e: the worker's seed if self.seed < 0,
\* else self.seed + epoch
RunSeed(w, e) == IF seed < 0 THEN pytorch_worker_seed(w, e) ELSE seed + e

\* a generator left in the state it was created in
ReseedSkipped(r0, s) == r0

\* rng.seed(seed) on a generator in state r0
Reseed(r0, s) == SeedState(s)

\* run that also writes the epoch it read, plus one, to the SharedEpoch
RunStoreWritten == IF self_epoch.shared THEN epoch_store + 1 ELSE epoch_store

\* the SharedEpoch after run or __iter__ has read it
StoreAfterRead == epoch_store

\* detshuffle2.run(src) up to the call of _shuffle
detshuffle2_run ==
    /\ stage = "detshuffle2"
    /\ phase \in {"ready", "done"}
    /\ iterations < MaxIterations
    /\ self_epoch' = EpochAdvanced
    /\ epoch_store' = StoreAfterRead
    /\ it' = [worker |-> it.worker, epoch |-> EpochRead,
              seed |-> RunSeed(it.worker, EpochRead), seeded |-> TRUE]
    /\ \E r0 \in StatesOf(Unseeded) : rng' = Reseed(r0, RunSeed(it.worker, EpochRead))
    /\ buf' = <<>>
    /\ spos' = 1
    /\ emitted' = <<>>
    /\ phase' = "running"
    /\ iterations' = iterations + 1
    /\ UNCHANGED <<stageConfig, first, notStage>>

\* initial = min(initial, bufsize)
initial_fill == Min({initial, bufsize})

\* one turn of "for sample in data": buf.append(sample), and if
\* len(buf) < bufsize a second item is taken with next(data) unless the source
\* is exhausted
TakesSecond == Len(buf) + 1 < bufsize /\ spos + 1 <= Len(urls)

Buffered ==
    IF TakesSecond
    THEN Append(Append(buf, urls[spos]), urls[spos + 1])
    ELSE Append(buf, urls[spos])

Consumed == IF TakesSecond THEN spos + 2 ELSE spos + 1

\* pick(buf, rng): k = rng.randint(0, len(buf) - 1) on the generator in state x
randint(x, b) == (x % Len(b)) + 1

\* pick without "buf[k] = buf[-1]": the last item is dropped, the picked one stays
PoppedLast(b, k) == SubSeq(b, 1, Len(b) - 1)

\* pick(buf, rng): buf[k] = buf[-1]; buf.pop()
Popped(b, k) == SubSeq([b EXCEPT ![k] = b[Len(b)]], 1, Len(b) - 1)

\* _shuffle: a turn of the loop that leaves the buffer below the initial fill
ShuffleFill ==
    /\ stage = "detshuffle2"
    /\ phase = "running"
    /\ spos <= Len(urls)
    /\ Len(Buffered) < initial_fill
    /\ buf' = Buffered
    /\ spos' = Consumed
    /\ UNCHANGED <<stageConfig, self_epoch, epoch_store, rng, emitted, phase, it,
                   iterations, first, notStage>>

\* _shuffle: a turn of the loop that yields pick(buf, rng)
ShuffleYield ==
    /\ stage = "detshuffle2"
    /\ phase = "running"
    /\ spos <= Len(urls)
    /\ Len(Buffered) >= initial_fill
    /\ rng' = NextState(rng)
    /\ emitted' = Append(emitted, Buffered[randint(rng', Buffered)])
    /\ buf' = Popped(Buffered, randint(rng', Buffered))
    /\ spos' = Consumed
    /\ UNCHANGED <<stageConfig, self_epoch, epoch_store, phase, it, iterations,
                   first, notStage>>

\* _shuffle: the source is exhausted, "while len(buf) > 0: yield pick(buf, rng)"
ShuffleDrain ==
    /\ stage = "detshuffle2"
    /\ phase = "running"
    /\ spos > Len(urls)
    /\ buf # <<>>
    /\ rng' = NextState(rng)
    /\ emitted' = Append(emitted, buf[randint(rng', buf)])
    /\ buf' = Popped(buf, randint(rng', buf))
    /\ UNCHANGED <<stageConfig, self_epoch, epoch_store, spos, phase, it,
                   iterations, first, notStage>>

\* _shuffle returns: the iteration is over and its local generator dropped
ShuffleEnd ==
    /\ stage = "detshuffle2"
    /\ phase = "running"
    /\ spos > Len(urls)
    /\ buf = <<>>
    /\ phase' = "done"
    /\ rng' = Unseeded
    /\ first' = Recorded
    /\ UNCHANGED <<stageConfig, self_epoch, epoch_store, buf, spos, emitted, it,
                   iterations, notStage>>

\* SharedEpoch.set_value(e), called by the owner of the counter
set_value ==
    /\ self_epoch.shared
    /\ phase \in {"ready", "done"}
    /\ \E e \in 0..MaxEpoch : e > epoch_store /\ epoch_store' = e
    /\ UNCHANGED <<stageConfig, self_epoch, rng, buf, spos, emitted, phase, it,
                   iterations, first, notStage>>

\* the copy of the constructed stage that another process holds: its own
\* integer epoch and its own generator, the same SharedEpoch
Fork ==
    /\ phase = "done"
    /\ \E w \in Workers \ {it.worker} : it' = [NoIteration EXCEPT !.worker = w]
    /\ self_epoch' = [self_epoch EXCEPT !.value = epoch0]
    /\ rng' = Unseeded
    /\ buf' = <<>>
    /\ spos' = 1
    /\ emitted' = <<>>
    /\ phase' = "ready"
    /\ iterations' = 0
    /\ UNCHANGED <<stageConfig, epoch_store, first, notStage>>

\* __init__ without "assert isinstance(self.urls[0], str)"
InitUnchecked == "ready"

\* ResampledShards2.__init__: self.urls[0] of an empty list raises
InitChecked == IF urls = <<>> THEN "failed" ELSE "ready"

\* ResampledShards2.__init__
ResampledShards2_init ==
    /\ stage = "ResampledShards2"
    /\ phase = "new"
    /\ phase' = InitChecked
    /\ UNCHANGED <<stageConfig, self_epoch, epoch_store, rng, buf, spos, emitted, it,
                   iterations, first, notStage>>

\* the seed of an iteration taken as self.seed + epoch of a detshuffle2
IterSeedAsRun(w, e) == seed + e

\* the seed of a deterministic iteration in process w at epoch e
IterSeed(w, e) ==
    IF worker_seed.none THEN pytorch_worker_seed(w, e) ELSE worker_seed.fn[w] + e

\* __iter__ without "self.rng.seed(seed)"
IterRngNotReseeded(r0) == r0

\* self.rng, found in state r0, after "if self.deterministic: ...
\* self.rng.seed(seed)"
IterRng(r0) ==
    IF deterministic THEN Reseed(r0, IterSeed(it.worker, EpochRead)) ELSE r0

\* ResampledShards2.__iter__ up to its loop
ResampledShards2_iter ==
    /\ stage = "ResampledShards2"
    /\ phase \in {"ready", "done"}
    /\ iterations < MaxIterations
    /\ self_epoch' = EpochAdvanced
    /\ epoch_store' = StoreAfterRead
    /\ it' = [worker |-> it.worker, epoch |-> EpochRead,
              seed |-> IF deterministic THEN IterSeed(it.worker, EpochRead) ELSE -1,
              seeded |-> deterministic]
    /\ \E r0 \in StatesOf(rng) : rng' = IterRng(r0)
    /\ emitted' = <<>>
    /\ phase' = "running"
    /\ iterations' = iterations + 1
    /\ UNCHANGED <<stageConfig, buf, spos, first, notStage>>

\* range(self.nshards) cut one draw short
DrawsLeftShort == Len(emitted) + 1 < nshards

\* for _ in range(self.nshards): another draw is due
DrawsLeft == Len(emitted) < nshards

\* self.rng.choice(self.urls) on the generator in state x
choice(x) == urls[(x % Len(urls)) + 1]

\* yield dict(url=self.rng.choice(self.urls))
Draw ==
    /\ stage = "ResampledShards2"
    /\ phase = "running"
    /\ DrawsLeft
    /\ rng' = NextState(rng)
    /\ emitted' = Append(emitted, choice(rng'))
    /\ UNCHANGED <<stageConfig, self_epoch, epoch_store, buf, spos, phase, it,
                   iterations, first, notStage>>

\* the loop of __iter__ is over
IterEnd ==
    /\ stage = "ResampledShards2"
    /\ phase = "running"
    /\ ~DrawsLeft
    /\ phase' = "done"
    /\ first' = Recorded
    /\ UNCHANGED <<stageConfig, self_epoch, epoch_store, rng, buf, spos, emitted,
                   it, iterations, notStage>>

NextStage ==
    \/ detshuffle2_init
    \/ detshuffle2_run
    \/ ShuffleFill
    \/ ShuffleYield
    \/ ShuffleDrain
    \/ ShuffleEnd
    \/ ResampledShards2_init
    \/ ResampledShards2_iter
    \/ Draw
    \/ IterEnd
    \/ set_value
    \/ Fork

\* ---------------------------------------------------------- get_wds_dataset
\* the calls: a count of 0 stands for a count that is None
WdsArgs ==
    [is_train : BOOLEAN,
     floor : BOOLEAN,
     dataset_resampled : BOOLEAN,
     size_samples : 0..MaxSamples,       \* num_samples of get_dataset_size
     num_shards : 0..MaxItems,           \* num_shards of get_dataset_size
     num_samples_arg : 0..MaxSamples,    \* args.train_num_samples or args.val_num_samples
     batch_size : 1..MaxBatchSize,
     world_size : 1..MaxWorldSize,
     workers : 0..MaxWorkers]

NoInfo == [result |-> "pending", num_batches |-> 0, num_samples |-> 0,
           num_worker_batches |-> 0]

\* resampled = getattr(args, 'dataset_resampled', False) and is_train
resampled == wds_args.dataset_resampled /\ wds_args.is_train

\* num_samples after "if not num_samples: ..." where no error is raised
DeclaredSamples ==
    IF wds_args.size_samples # 0 THEN wds_args.size_samples ELSE wds_args.num_samples_arg

\* the RuntimeError of a training source without sample count
MissingCount == wds_args.is_train /\ DeclaredSamples = 0

\* get_wds_dataset without its assert on the number of shards
ShardsUnchecked == TRUE

\* assert num_shards >= args.workers * args.world_size, in training without resampling
ShardsChecked ==
    (wds_args.is_train /\ ~resampled)
        => wds_args.num_shards >= wds_args.workers * wds_args.world_size

\* math.ceil(a / b) and math.floor(a / b) of integers a >= 0, b > 0
ceil(a, b) == (a + b - 1) \div b
floor(a, b) == a \div b

\* round_fn = math.floor if floor else math.ceil
round_fn(a, b) == IF wds_args.floor THEN floor(a, b) ELSE ceil(a, b)

\* the training counts without "num_batches = num_worker_batches * num_workers"
TrainCountsPerRank ==
    LET gbs == wds_args.batch_size * wds_args.world_size
        nb == round_fn(DeclaredSamples, gbs)
        nw == Max({1, wds_args.workers})
        nwb == round_fn(nb, nw)
    IN  [result |-> "built", num_batches |-> nb, num_samples |-> nb * gbs,
         num_worker_batches |-> nwb]

\* the counts of a training source
TrainCounts ==
    LET gbs == wds_args.batch_size * wds_args.world_size
        nb == round_fn(DeclaredSamples, gbs)
        nw == Max({1, wds_args.workers})
        nwb == round_fn(nb, nw)
    IN  [result |-> "built", num_batches |-> nwb * nw, num_samples |-> nwb * nw * gbs,
         num_worker_batches |-> nwb]

\* the counts of an evaluation source
EvalCounts ==
    [result |-> "built", num_batches |-> ceil(DeclaredSamples, wds_args.batch_size),
     num_samples |-> DeclaredSamples, num_worker_batches |-> 0]

InitPipe ==
    /\ wds_args \in WdsArgs
    /\ wds_info = NoInfo

\* no call of get_wds_dataset is followed
PipeIdle ==
    /\ wds_args = [is_train |-> FALSE, floor |-> FALSE, dataset_resampled |-> FALSE,
                   size_samples |-> 0, num_shards |-> 0, num_samples_arg |-> 0,
                   batch_size |-> 1, world_size |-> 1, workers |-> 0]
    /\ wds_info = [NoInfo EXCEPT !.result = "built"]

\* get_wds_dataset(args, preprocess_img, is_train, epoch, floor)
get_wds_dataset ==
    /\ wds_info.result = "pending"
    /\ wds_info' =
          IF MissingCount THEN [NoInfo EXCEPT !.result = "RuntimeError"]
          ELSE IF ~ShardsChecked THEN [NoInfo EXCEPT !.result = "AssertionError"]
          ELSE IF wds_args.is_train THEN TrainCounts
          ELSE EvalCounts
    /\ UNCHANGED <<wds_args, mixVars, sessionVars, groupVars, stageVars, tarVars>>

NextPipe == get_wds_dataset

\* ----------------------------------------------- tarfile_to_samples_nothrow
\* log_and_continue that returns False
log_and_stop(exn) == FALSE

\* log_and_continue(exn): the warning is logged, return True
log_and_continue(exn) == TRUE

\* the handler tarfile_to_samples_nothrow passes to url_opener and
\* tar_file_expander
handler(exn) == log_and_continue(exn)

\* the archives a shard may hold
Archives ==
    {<<>>,
     <<Name_a_jpg>>,
     <<Name_a_jpg, Name_a_txt>>,
     <<Name_a_txt, Name_b_jpg>>,
     <<Name_a, Name_b_jpg>>}

\* a shard: its archive, and the error it raises, if any: when it is opened,
\* or when it is expanded, after "at" of its entries have been read
Shards ==
    {sh \in [names : Archives, fault : {"none", "open", "expand"}, at : 0..2] :
        /\ sh.at <= Len(sh.names)
        /\ sh.fault # "expand" => sh.at = 0}

\* the shard lists of src
ShardStreams == UNION {[1..n -> Shards] : n \in 0..MaxShards}

Shard == shards[tpos]

\* the filesample tar_file_expander yields for entry j of shard k
FileSample(k, j) == [fname |-> shards[k].names[j], data |-> <<k, j>>, url |-> k]

InitTar ==
    /\ shards \in ShardStreams
    /\ tpos = 1
    /\ epos = 1
    /\ tstate = "next"
    /\ data = <<>>
    /\ suffixes = NoSuffixes
    /\ pos = 1
    /\ current_sample = NoneSample
    /\ out = <<>>
    /\ gstate = "waiting"

\* no stream of shards is read
TarIdle ==
    /\ shards = <<>>
    /\ tpos = 1
    /\ epos = 1
    /\ tstate = "ended"

tarRest == <<mixVars, sessionVars, stageVars, pipeVars, suffixes, pos,
             current_sample, out>>

\* url_opener: the shard is opened and handed to tar_file_expander
OpenShard ==
    /\ tstate = "next"
    /\ tpos <= Len(shards)
    /\ Shard.fault # "open"
    /\ tstate' = "reading"
    /\ epos' = 1
    /\ UNCHANGED <<shards, tpos, data, gstate, tarRest>>

\* url_opener: gopen raises; "if handler(exn): continue / else: break"
OpenFails ==
    /\ tstate = "next"
    /\ tpos <= Len(shards)
    /\ Shard.fault = "open"
    /\ IF handler("open")
       THEN tpos' = tpos + 1 /\ UNCHANGED <<tstate, gstate>>
       ELSE tstate' = "ended" /\ gstate' = "running" /\ UNCHANGED tpos
    /\ UNCHANGED <<shards, epos, data, tarRest>>

\* the entry the expander is at cannot be read
ExpandFaulty == Shard.fault = "expand" /\ epos = Shard.at + 1

\* tar_file_expander: the next entry of the archive is yielded
ExpandEntry ==
    /\ tstate = "reading"
    /\ epos <= Len(Shard.names)
    /\ ~ExpandFaulty
    /\ data' = Append(data, FileSample(tpos, epos))
    /\ epos' = epos + 1
    /\ UNCHANGED <<shards, tpos, tstate, gstate, tarRest>>

\* tar_file_expander: the archive raises; "if handler(exn): continue / else: break"
ExpandFails ==
    /\ tstate = "reading"
    /\ ExpandFaulty
    /\ IF handler("expand")
       THEN tstate' = "next" /\ tpos' = tpos + 1 /\ UNCHANGED gstate
       ELSE tstate' = "ended" /\ gstate' = "running" /\ UNCHANGED tpos
    /\ UNCHANGED <<shards, epos, data, tarRest>>

\* tar_file_expander: the archive is read to its end
ShardEnd ==
    /\ tstate = "reading"
    /\ epos > Len(Shard.names)
    /\ ~ExpandFaulty
    /\ tstate' = "next"
    /\ tpos' = tpos + 1
    /\ UNCHANGED <<shards, epos, data, gstate, tarRest>>

\* src is exhausted: group_by_keys_nothrow has the whole stream of files
StreamEnd ==
    /\ tstate = "next"
    /\ tpos > Len(shards)
    /\ tstate' = "ended"
    /\ gstate' = "running"
    /\ UNCHANGED <<shards, tpos, epos, data, tarRest>>

NextTar ==
    \/ OpenShard
    \/ OpenFails
    \/ ExpandEntry
    \/ ExpandFails
    \/ ShardEnd
    \/ StreamEnd
    \/ NextGroup

\* --------------------------------------------------------- specifications
NextSessions ==
    \/ Next
    \/ Restart

\* one session, no comparison
Init ==
    /\ InitMix
    /\ probe = NoProbe
    /\ GroupIdle
    /\ StageIdle
    /\ PipeIdle
    /\ TarIdle

\* weighted sessions compared at one round of one epoch
InitSessions ==
    /\ InitMix
    /\ weighted
    \* the selection reads no epoch counter: they are left out of the comparison
    /\ ~distributed
    /\ probe \in [round : 0..(MaxSources * MaxBatches - 1), epoch : 0..MaxEpoch]
    /\ probe.round < num_batches
    /\ GroupIdle
    /\ StageIdle
    /\ PipeIdle
    /\ TarIdle

SpecSessions == InitSessions /\ [][NextSessions]_vars

\* one run of the grouper over one stream
InitGrouper ==
    /\ InitGroup
    /\ MixIdle
    /\ StageIdle
    /\ PipeIdle
    /\ TarIdle

\* one shard-level stage, iterated in one process after the other
InitStages ==
    /\ InitStage
    /\ MixIdle
    /\ GroupIdle
    /\ PipeIdle
    /\ TarIdle

SpecStages == InitStages /\ [][NextStage]_vars

\* one call of get_wds_dataset
InitPipeline ==
    /\ InitPipe
    /\ MixIdle
    /\ GroupIdle
    /\ StageIdle
    /\ TarIdle

SpecPipeline == InitPipeline /\ [][NextPipe]_vars

\* one stream of shards read and grouped
InitTarfile ==
    /\ InitTar
    /\ MixIdle
    /\ StageIdle
    /\ PipeIdle

SpecTarfile == InitTarfile /\ [][NextTar]_vars

SpecGroup == InitGrouper /\ [][NextGroup]_vars

Spec == Init /\ [][Next]_vars

\* ----------------------------------------------------------------- claims

\* C1: round grows by exactly 1 with each batch produced and by nothing else,
\* goes back to 0 only from totalBatches and in the step that adds exactly 1 to
\* the epoch, the epoch changes in no other step, and 0 <= round <= totalBatches.
C1_RoundAndEpoch ==
    /\ [](0 <= count /\ count <= num_batches)
    /\ [][/\ count' \in {count, count + 1, 0}
          /\ (yielded' = yielded + 1) <=> (count' = count + 1)
          /\ count' = count + 1 => current_epoch' = current_epoch
          /\ (count' = 0 /\ count # 0) => count = num_batches
          /\ current_epoch' # current_epoch =>
                /\ count = num_batches
                /\ count' = 0
                /\ current_epoch' = current_epoch + 1]_vars

\* a full round of at least two batches has been closed by the boundary
C1_Witness ==
    /\ pass = "ended"
    /\ num_batches >= 2
    /\ yielded = num_batches
    /\ count = 0
    /\ current_epoch = passEpoch + 1

\* C2: after the boundary every sub-pipeline's epoch counter, and every
\* distributed sampler a sub-pipeline carries, holds the new epoch, which is the
\* pass's epoch plus one and the scheduler's current epoch.
C2_EpochPropagated ==
    pass = "ended" =>
        \A i \in Sources :
            /\ HasSharedEpoch(i) =>
                  /\ shared_epoch[i] = passEpoch + 1
                  /\ shared_epoch[i] = current_epoch
            /\ HasSampler(i) => sampler_epoch[i] = current_epoch

\* C3: a pass begun at round 0 that ends has yielded exactly totalBatches
\* batches and has performed the boundary; while a pass runs the epoch is the
\* one it began in, and it never yields more than totalBatches batches.
C3_SinglePass ==
    /\ yielded <= num_batches
    /\ pass \in {"active", "error"} => current_epoch = passEpoch
    /\ pass = "ended" =>
          /\ current_epoch = passEpoch + 1
          /\ count = 0
          /\ passStart = 0 => yielded = num_batches

\* a pass begun at round 0 has ended after a round of batches from two sources
C3_Witness ==
    /\ pass = "ended"
    /\ passStart = 0
    /\ num_datasets = 2
    /\ yielded = num_batches
    /\ num_batches > 2

\* C4: an exhausted iterator is replaced once per pull and the pull retried on
\* the fresh one; as long as no iterator was exhausted before its first batch,
\* no error ends a pass, however often a source is restarted.
C4_ExhaustionRecovered ==
    /\ [](~emptyFresh => pass # "error")
    /\ [][recreations' > recreations =>
            /\ recreations' = recreations + 1
            /\ lastPull'.recreated = 1
            /\ \A j \in Sources : j # lastPull'.idx =>
                  /\ dataiters'[j] = dataiters[j]
                  /\ iter_epoch'[j] = iter_epoch[j]]_vars

\* one source was restarted twice within a pass that ended without an error
C4_Witness ==
    /\ pass = "ended"
    /\ ~emptyFresh
    /\ num_datasets = 1
    /\ recreations >= 2

\* C5: when the fresh iterator fails too, the iterator was recreated once only,
\* the pass has ended with an error and not as a finished pass, the pull has
\* yielded nothing and round and epoch are those from before the pull.
C5_SecondFailureFatal ==
    (lastPull.idx # -1 /\ ~lastPull.ok) =>
        /\ pass = "error"
        /\ lastPull.recreated = 1
        /\ count = lastPull.round
        /\ current_epoch = lastPull.epoch
        /\ count = passStart + yielded

\* a pass has failed on a second exhaustion after it had yielded a batch
C5_Witness ==
    /\ pass = "error"
    /\ ~lastPull.ok
    /\ yielded >= 1

\* C6: without weights the source of a pull is round mod numSources, round
\* being the number of batches produced so far in the current virtual epoch.
C6_RoundRobin ==
    (~weighted /\ lastPull.idx # -1) =>
        /\ lastPull.idx = lastPull.round % num_datasets
        /\ lastPull.round = passStart + yielded - (IF lastPull.ok THEN 1 ELSE 0)

\* the fourth batch of a round over two sources came from the second source
C6_Witness ==
    /\ ~weighted
    /\ num_datasets = 2
    /\ lastPull.ok
    /\ lastPull.round = 3
    /\ lastPull.idx = 1

\* C8: the epoch is never negative and never decreases; the scheduler's epoch
\* and the sub-pipelines' counters change only in the boundary step, and what a
\* sub-pipeline's iterator reads from its counter is never less than what the
\* iterator before it read.
C8_EpochMonotonic ==
    /\ [](current_epoch >= 0 /\ \A i \in Sources : shared_epoch[i] >= 0)
    /\ [][/\ current_epoch' >= current_epoch
          /\ \A i \in Sources :
                /\ shared_epoch'[i] >= shared_epoch[i]
                /\ iter_epoch'[i] >= iter_epoch[i]
                /\ shared_epoch'[i] # shared_epoch[i] =>
                      /\ count = num_batches
                      /\ current_epoch' = current_epoch + 1
                      /\ shared_epoch'[i] = current_epoch']_vars

\* a recreated iterator has read an epoch that a boundary wrote
C8_Witness ==
    \E i \in Sources :
        /\ HasSharedEpoch(i)
        /\ recreations >= 1
        /\ lastPull.idx = i
        /\ iter_epoch[i] = shared_epoch[i]
        /\ shared_epoch[i] = MaxEpoch

\* C7 as stated: a weighted selection depends on round, epoch and weights
\* only, so any session with the same weights selects, at the probe's round and
\* epoch, the source first selected there.
C7_SameRoundSameSource ==
    (/\ weighted
     /\ lastPull.idx # -1
     /\ seen.idx # -1
     /\ lastPull.round = probe.round
     /\ lastPull.epoch = probe.epoch) => lastPull.idx = seen.idx

\* C7 amended: a weighted selection depends on round, epoch, totalBatches and
\* weights only, so any session with the same weights and the same totalBatches
\* selects, at the probe's round and epoch, the source first selected there.
C7_SameSeedSameSource ==
    (/\ weighted
     /\ lastPull.idx # -1
     /\ seen.idx # -1
     /\ lastPull.round = probe.round
     /\ lastPull.epoch = probe.epoch
     /\ num_batches = seen.total) => lastPull.idx = seen.idx

\* a later session with another history reached the probe and chose as the first
C7_Witness ==
    /\ weighted
    /\ seen.idx # -1
    /\ session > seen.session
    /\ num_datasets = 2
    /\ dl_num_batches[0] > 0
    /\ dl_num_batches[1] > 0
    /\ num_batches = seen.total
    /\ lastPull.round = probe.round
    /\ lastPull.epoch = probe.epoch
    /\ lastPull.idx = seen.idx
    /\ passStart # 0
    /\ recreations >= 1

\* the stream read so far, as the fold of the specification groups it:
\* <<groups closed so far, group being built>>
RECURSIVE GroupFold(_)
GroupFold(k) ==
    IF k = 0 THEN <<<<>>, NoneSample>>
    ELSE LET before == GroupFold(k - 1)
             closed == before[1]
             group == before[2]
             name == base_plus_ext(data[k].fname)
             ext == Lower(name.suffix)
             stored == IF suffixes.none \/ ext \in suffixes.set
                       THEN {ext} ELSE {}
             fresh == \/ group.none
                      \/ name.prefix # group.key
                      \/ ext \in DOMAIN group.fields
             base == IF fresh
                     THEN [none |-> FALSE, key |-> name.prefix, url |-> data[k].url,
                           fields |-> <<>>]
                     ELSE group
         IN  IF name.none THEN before
             ELSE <<IF fresh /\ ~group.none THEN Append(closed, group) ELSE closed,
                    [base EXCEPT !.fields =
                        [x \in (DOMAIN @) \cup stored |->
                            IF x = ext THEN data[k].data ELSE @[x]]]>>

\* the fold's output at the end of the stream: its last group is emitted too
FoldOutput ==
    LET last == GroupFold(Len(data))
    IN  IF last[2].none THEN last[1] ELSE Append(last[1], last[2])

\* C9: at every point of the run the samples yielded and the group in hand
\* are those of the specification's left-to-right fold over the entries read,
\* and once the stream has ended the output is the fold's output.
C9_GrouperIsFold ==
    /\ gstate = "running" => <<out, current_sample>> = GroupFold(pos - 1)
    /\ gstate = "done" => out = FoldOutput

\* [a.jpg, a.txt, b.jpg] has given [{key a, jpg, txt}, {key b, jpg}]
C9_Witness ==
    /\ gstate = "done"
    /\ suffixes.none
    /\ Len(data) = 3
    /\ data[1].fname = Name_a_jpg
    /\ data[2].fname = Name_a_txt
    /\ data[3].fname = Name_b_jpg
    /\ Len(out) = 2
    /\ out[1].key = <<"a">>
    /\ DOMAIN out[1].fields = {Ext_jpg, Ext_txt}
    /\ out[1].fields[Ext_jpg] = 1
    /\ out[1].fields[Ext_txt] = 2
    /\ out[2].key = <<"b">>
    /\ DOMAIN out[2].fields = {Ext_jpg}
    /\ out[2].fields[Ext_jpg] = 3

\* entries k and k+1 of the stream have a prefix each, the same one, and the
\* same extension once lower-cased
Duplicate(k) ==
    /\ ~base_plus_ext(data[k].fname).none
    /\ ~base_plus_ext(data[k + 1].fname).none
    /\ base_plus_ext(data[k].fname).prefix = base_plus_ext(data[k + 1].fname).prefix
    /\ Lower(base_plus_ext(data[k].fname).suffix)
          = Lower(base_plus_ext(data[k + 1].fname).suffix)

\* two samples next to each other in the output have the entries' key and hold,
\* for the entries' extension, the payload of entry k and of entry k+1
SplitInTwo(k) ==
    LET name == base_plus_ext(data[k].fname)
        ext == Lower(name.suffix)
    IN  \E i \in 1..(Len(out) - 1) :
            /\ out[i].key = name.prefix
            /\ out[i + 1].key = name.prefix
            /\ ext \in DOMAIN out[i].fields
            /\ ext \in DOMAIN out[i + 1].fields
            /\ out[i].fields[ext] = data[k].data
            /\ out[i + 1].fields[ext] = data[k + 1].data

\* C10 as stated: two consecutive entries with the same prefix and the same
\* lower-cased extension are never merged: they come out as two samples with
\* the same key, each with its own payload for the extension.
C10_DuplicateSplits ==
    gstate = "done" =>
        \A k \in 1..(Len(data) - 1) : Duplicate(k) => SplitInTwo(k)

\* C10 amended: the same, for an extension that is stored, that is when no
\* allow-list is given or the allow-list holds the extension.
C10_StoredDuplicateSplits ==
    gstate = "done" =>
        \A k \in 1..(Len(data) - 1) :
            (/\ Duplicate(k)
             /\ \/ suffixes.none
                \/ Lower(base_plus_ext(data[k].fname).suffix) \in suffixes.set)
            => SplitInTwo(k)

\* [a.jpg, a.JPG] has given two samples of key a with one jpg field each
C10_Witness ==
    /\ gstate = "done"
    /\ suffixes.none
    /\ Len(data) = 2
    /\ data[1].fname = Name_a_jpg
    /\ data[2].fname = Name_a_JPG
    /\ Len(out) = 2
    /\ out[1].key = out[2].key
    /\ DOMAIN out[1].fields = {Ext_jpg}
    /\ DOMAIN out[2].fields = {Ext_jpg}
    /\ out[1].fields[Ext_jpg] = 1
    /\ out[2].fields[Ext_jpg] = 2

\* C11: every sample the grouper emits has at least one content field besides
\* the bookkeeping key and shard: a group in which no extension was stored is
\* dropped, when a new group starts and at the end of the stream
C11_EmittedHasContent ==
    \A k \in 1..Len(out) : DOMAIN out[k].fields # {}

\* the iteration that has just finished and the first one recorded are two
\* iterations of the stage
Compared == phase = "done" /\ ~first.none

\* C12: for a fixed baseSeed >= 0, a fixed epoch and a fixed input sequence,
\* two independent runs of the reshuffler produce the same output sequence
C12_ReshuffleDeterministic ==
    (stage = "detshuffle2" /\ Compared /\ seed >= 0 /\ it.epoch = first.epoch)
        => emitted = first.out

\* two processes have shuffled the longest list at the same epoch, and the
\* output is not the input order
C12_Witness ==
    /\ stage = "detshuffle2"
    /\ Compared
    /\ seed >= 0
    /\ it.worker # first.worker
    /\ it.epoch = first.epoch
    /\ Len(urls) = MaxItems
    /\ emitted = first.out
    /\ emitted # urls

\* C13: with baseSeed >= 0 the reshuffler's seed is baseSeed + epoch whatever
\* the worker: two iterations that read the same epoch derive the same seed,
\* two that read different epochs derive different seeds
C13_SeedIsBasePlusEpoch ==
    (stage = "detshuffle2" /\ seed >= 0 /\ it.seeded)
        => /\ it.seed = seed + it.epoch
           /\ ~first.none => (it.epoch = first.epoch <=> it.seed = first.seed)

\* two different workers have read the same value of the shared counter
C13_Witness ==
    /\ stage = "detshuffle2"
    /\ seed >= 0
    /\ self_epoch.shared
    /\ it.seeded
    /\ ~first.none
    /\ it.worker # first.worker
    /\ it.epoch = first.epoch
    /\ it.epoch > 0
    /\ it.seed = first.seed

\* the value the seed of a deterministic iteration starts from in process w
SeedSource(w) == IF worker_seed.none THEN pytorch_worker_seed(w, 0) ELSE worker_seed.fn[w]

\* C14: with deterministic = true, a fixed seed and a fixed epoch, every
\* iteration of the resampler over the same shard list with the same draw
\* count yields the same sequence of shards, also when the same object is
\* iterated again
C14_ResampleDeterministic ==
    (/\ stage = "ResampledShards2"
     /\ Compared
     /\ deterministic
     /\ SeedSource(it.worker) = SeedSource(first.worker)
     /\ it.epoch = first.epoch)
        => emitted = first.out

\* the same object has been iterated twice at the same epoch, for the most
\* draws over the longest list, and not every draw is the same shard
C14_Witness ==
    /\ stage = "ResampledShards2"
    /\ Compared
    /\ deterministic
    /\ iterations = 2
    /\ it.worker = first.worker
    /\ it.epoch = first.epoch
    /\ Len(urls) = MaxItems
    /\ nshards = MaxItems
    /\ emitted = first.out
    /\ \E i, j \in 1..Len(emitted) : emitted[i] # emitted[j]

IsRounded(n, a, b) == 2 * n * b - b <= 2 * a /\ 2 * a <= 2 * n * b + b

\* the worker count the batches are divided over
numWorkers == Max({1, wds_args.workers})

globalBatchSize == wds_args.batch_size * wds_args.world_size

Built == wds_info.result = "built"

\* what the claim concludes from the counts: the declared batch count is a
\* multiple of the worker count, every worker's share being numWorkerBatches
EqualShares ==
    /\ wds_info.num_batches = wds_info.num_worker_batches * numWorkers
    /\ wds_info.num_batches % numWorkers = 0
    /\ wds_info.num_samples = wds_info.num_batches * globalBatchSize

\* C16 as stated: in training mode numBatches = round(declaredSamples /
\* globalBatchSize), numWorkerBatches = round(numBatches / numWorkers), the
\* declared batch count is numWorkerBatches * numWorkers and the declared
\* sample count that times the global batch size; in evaluation mode the
\* declared batch count is ceil(declaredSamples / batchSize)
C16_CountsRounded ==
    Built =>
        IF wds_args.is_train
        THEN /\ \E nb \in 0..MaxSamples :
                   /\ IsRounded(nb, DeclaredSamples, globalBatchSize)
                   /\ IsRounded(wds_info.num_worker_batches, nb, numWorkers)
             /\ EqualShares
        ELSE wds_info.num_batches = ceil(DeclaredSamples, wds_args.batch_size)

\* C16 amended: the two quotients are rounded up, or down when the caller
\* asks for floor, the worker count being at least 1
C16_CountsCeilOrFloor ==
    Built =>
        IF wds_args.is_train
        THEN /\ \E nb \in 0..MaxSamples :
                   /\ IF wds_args.floor
                      THEN /\ nb * globalBatchSize <= DeclaredSamples
                           /\ DeclaredSamples < (nb + 1) * globalBatchSize
                           /\ wds_info.num_worker_batches * numWorkers <= nb
                           /\ nb < (wds_info.num_worker_batches + 1) * numWorkers
                      ELSE /\ (nb - 1) * globalBatchSize < DeclaredSamples
                           /\ DeclaredSamples <= nb * globalBatchSize
                           /\ (wds_info.num_worker_batches - 1) * numWorkers < nb
                           /\ nb <= wds_info.num_worker_batches * numWorkers
             /\ EqualShares
        ELSE /\ (wds_info.num_batches - 1) * wds_args.batch_size < DeclaredSamples
             /\ DeclaredSamples <= wds_info.num_batches * wds_args.batch_size

\* a training source is built whose sample count is no multiple of the global
\* batch size and whose batches do not divide over its workers
C16_Witness ==
    /\ Built
    /\ wds_args.is_train
    /\ wds_args.workers > 1
    /\ DeclaredSamples % globalBatchSize # 0
    /\ wds_info.num_batches * globalBatchSize > DeclaredSamples + globalBatchSize

\* C17: in training mode the construction fails, and no dataloader is
\* returned, when no sample count is available or, without resampling, there
\* are fewer shards than workers * worldSize; in evaluation mode a missing
\* sample count is no error and the declared count is 0
C17_ConfigurationErrors ==
    wds_info.result # "pending" =>
        /\ (wds_args.is_train /\ DeclaredSamples = 0)
               => wds_info = [NoInfo EXCEPT !.result = "RuntimeError"]
        /\ (/\ wds_args.is_train
            /\ ~resampled
            /\ wds_args.num_shards < wds_args.workers * wds_args.world_size)
               => (~Built /\ wds_info.num_batches = 0 /\ wds_info.num_samples = 0)
        /\ (~wds_args.is_train /\ DeclaredSamples = 0)
               => (Built /\ wds_info.num_samples = 0 /\ wds_info.num_batches = 0)

\* a training source with a sample count has failed for want of shards
C17_Witness ==
    /\ wds_args.is_train
    /\ DeclaredSamples > 0
    /\ wds_args.num_shards > 0
    /\ wds_info.result = "AssertionError"

\* shard k raises no error
Healthy(k) == shards[k].fault = "none"

\* entry j of shard k has a name that splits into prefix and extension
Grouped(k, j) == ~base_plus_ext(shards[k].names[j]).none

\* the emitted sample i holds the payload of entry j of shard k, under the
\* entry's extension and prefix
Holds(i, k, j) ==
    LET split == base_plus_ext(shards[k].names[j])
    IN  /\ out[i].key = split.prefix
        /\ Lower(split.suffix) \in DOMAIN out[i].fields
        /\ out[i].fields[Lower(split.suffix)] = <<k, j>>

\* the entries of shard k that were read before the shard raised
ReadOf(k) ==
    IF shards[k].fault = "none" THEN 1..Len(shards[k].names)
    ELSE IF shards[k].fault = "open" THEN {}
    ELSE 1..shards[k].at

DrawsAreShards ==
    phase = "done" =>
        /\ Len(emitted) = nshards
        /\ \A k \in 1..Len(emitted) : \E i \in 1..Len(urls) : emitted[k] = urls[i]

\* C19 as stated: a deterministic resampler derives its seed as the
\* reshuffler does, a base seed plus the epoch, the same in every worker that
\* observes the same epoch, reseeds its generator with it, and then yields
\* drawCount draws, each a shard of the list
C19_SeedAsReshuffler ==
    (stage = "ResampledShards2" /\ deterministic /\ it.seeded)
        => /\ ~first.none => it.seed - it.epoch = first.seed - first.epoch
           /\ (phase = "running" /\ emitted = <<>>) => rng = SeedState(it.seed)
           /\ DrawsAreShards

\* C19 amended: the seed is worker_seed() + epoch when a worker-seed function
\* is configured, otherwise the seed of the process, to which a dataloader
\* worker adds epoch * max(1, workerCount); it is the same for the same
\* process at the same epoch; the generator is reseeded with it and drawCount
\* draws follow, each a shard of the list
C19_SeedOfProcess ==
    (stage = "ResampledShards2" /\ deterministic /\ it.seeded)
        => /\ it.seed = IF ~worker_seed.none THEN worker_seed.fn[it.worker] + it.epoch
                        ELSE IF it.worker >= 0
                        THEN worker_info_seed(it.worker) + it.epoch * Max({1, num_workers})
                        ELSE wds_worker_seed
           /\ (~first.none /\ first.worker = it.worker /\ first.epoch = it.epoch)
                  => it.seed = first.seed
           /\ (phase = "running" /\ emitted = <<>>) => rng = SeedState(it.seed)
           /\ DrawsAreShards

\* two dataloader workers have iterated a resampler without worker-seed
\* function at the same epoch, with different seeds, for the most draws
C19_Witness ==
    /\ stage = "ResampledShards2"
    /\ deterministic
    /\ worker_seed.none
    /\ Compared
    /\ it.worker >= 0
    /\ first.worker >= 0
    /\ it.worker # first.worker
    /\ it.epoch = first.epoch
    /\ it.epoch > 0
    /\ it.seed # first.seed
    /\ nshards = MaxItems
    /\ Len(urls) > 1

\* C20: a stage given the shared epoch counter reads it once, at the start of
\* an iteration, and never writes it; a stage given an integer epoch adds 1 to
\* its own counter at every start of an iteration, so that its k-th iteration
\* uses the epoch initial + k
C20_EpochCounterFrame ==
    [][/\ (iterations' # iterations \/ phase' # phase \/ emitted' # emitted)
              => epoch_store' = epoch_store
       /\ (iterations' = iterations + 1 /\ self_epoch.shared)
              => (it'.epoch = epoch_store /\ self_epoch' = self_epoch)
       /\ (iterations' = iterations + 1 /\ ~self_epoch.shared)
              => /\ self_epoch'.value = self_epoch.value + 1
                 /\ it'.epoch = epoch0 + iterations'
       /\ iterations' = iterations
              => (self_epoch' = self_epoch /\ it'.epoch = it.epoch)]_vars

\* a stage constructed with the default epoch -1 has finished as many
\* iterations as are followed, the last one at epoch initial + k
C20_Witness ==
    /\ ~self_epoch.shared
    /\ epoch0 = -1
    /\ phase = "done"
    /\ iterations = MaxIterations
    /\ it.epoch = epoch0 + MaxIterations

\* the places (sample, field) of an output where a payload is found
PlacesIn(samples, payload) ==
    {kf \in UNION {{<<k, f>> : f \in DOMAIN samples[k].fields} : k \in 1..Len(samples)} :
        samples[kf[1]].fields[kf[2]] = payload}

\* the position in the stream of the first entry of an emitted sample
FirstEntry(sample) ==
    Min({i \in 1..Len(data) : \E f \in DOMAIN sample.fields : sample.fields[f] = data[i].data})

\* the entry read by this step is stored in the group being collected
StoresInCurrent ==
    /\ pos' = pos + 1
    /\ pos <= Len(data)
    /\ ~Split.none
    /\ ~current_sample.none
    /\ current_sample'.key = current_sample.key
    /\ out' = out

\* the entry read by this step has no prefix
SkipsEntry ==
    /\ pos' = pos + 1
    /\ pos <= Len(data)
    /\ Split.none

\* without an allow-list, at the end of the stream
AllGrouped ==
    (gstate = "done" /\ suffixes.none) =>
        /\ \A i \in 1..Len(data) :
              Cardinality(PlacesIn(out, data[i].data)) =
                  IF base_plus_ext(data[i].fname).none THEN 0 ELSE 1
        /\ \A k \in 1..Len(out) : DOMAIN out[k].fields # {}
        /\ \A k, l \in 1..Len(out) : k < l => FirstEntry(out[k]) < FirstEntry(out[l])

\* C21: the grouper neither loses nor overwrites payloads: a step that stores
\* in the group being collected keeps every field the group already has, a
\* step over an entry without a prefix leaves the group and the output as
\* they are, and without an allow-list every entry with a prefix has its
\* payload in exactly one place of the output, the samples in the order of
\* their first entries
C21_NoLossNoOverwrite ==
    /\ []AllGrouped
    /\ [][/\ StoresInCurrent =>
               \A f \in DOMAIN current_sample.fields :
                   /\ f \in DOMAIN current_sample'.fields
                   /\ current_sample'.fields[f] = current_sample.fields[f]
           /\ SkipsEntry => UNCHANGED <<current_sample, out>>]_vars

\* a stream was grouped in which an entry without a prefix came between two
\* entries of one key with the same extension, which went to two samples
C21_Witness ==
    /\ gstate = "done"
    /\ suffixes.none
    /\ Len(data) = 3
    /\ base_plus_ext(data[2].fname).none
    /\ Len(out) = 2
    /\ out[1].key = out[2].key
    /\ DOMAIN out[1].fields = DOMAIN out[2].fields

\* how many times an item occurs in a sequence
Occurrences(s, x) == Cardinality({j \in 1..Len(s) : s[j] = x})

\* the reshuffler is iterating over its source
Shuffling == stage = "detshuffle2" /\ phase \in {"running", "done"}

\* every item read from the source is in the buffer or in the output, once,
\* and no other item is; at the end the buffer is empty and the source read
EmittedOnce ==
    Shuffling =>
        /\ \A i \in 1..Len(urls) :
              Occurrences(emitted, urls[i]) + Occurrences(buf, urls[i]) =
                  IF i < spos THEN 1 ELSE 0
        /\ Len(emitted) + Len(buf) = Min({spos - 1, Len(urls)})
        /\ phase = "done" => buf = <<>> /\ Len(emitted) = Len(urls)

\* the buffer between two turns of the loop, and after the appends of a turn
BufferWithin(n) ==
    Shuffling =>
        /\ Len(buf) <= n
        /\ (phase = "running" /\ spos <= Len(urls)) => Len(Buffered) <= n

\* C22 as stated: the output is a permutation of the input and the buffer
\* never holds more than bufsize items
C22_BufferWithinBufsize == EmittedOnce /\ BufferWithin(bufsize)

\* C22: the output of the reshuffler is a permutation of its input, and the
\* buffer never holds more than bufsize items, or one item when bufsize is
\* below one
C22_PermutationBoundedBuffer == EmittedOnce /\ BufferWithin(Max({bufsize, 1}))

\* a source shorter than the initial fill and the buffer size was reshuffled
\* into another order
C22_Witness ==
    /\ stage = "detshuffle2"
    /\ phase = "done"
    /\ Len(urls) = 2
    /\ initial > Len(urls)
    /\ bufsize > Len(urls)
    /\ emitted = <<urls[2], urls[1]>>

\* a round-robin pass that began at round 0 and has ended at its boundary
FullRoundRobinPass == pass = "ended" /\ passStart = 0 /\ ~weighted

\* C23: over a full round-robin pass started at round 0, source i is pulled
\* ceil((totalBatches - i) / numSources) times, whatever its dataloader
\* declares, so that the pull counts of two sources differ by 1 at most
C23_PullsPerSource ==
    FullRoundRobinPass =>
        /\ \A i \in Sources : pulls[i] = ceil(num_batches - i, num_datasets)
        /\ \A i, j \in Sources : pulls[i] - pulls[j] <= 1

\* a full round-robin pass over two sources ended in which the source that
\* declares fewer batches was pulled more often than it declares, and more
\* often than the other source
C23_Witness ==
    /\ FullRoundRobinPass
    /\ num_datasets = 2
    /\ dl_num_batches[0] < dl_num_batches[1]
    /\ pulls[0] > dl_num_batches[0]
    /\ pulls[0] > pulls[1]

\* the step is the boundary of a pass, or the start of a pass
BoundaryStep == pass = "active" /\ pass' = "ended"
StartStep == pass # "active" /\ pass' = "active"

\* the step is a pull on source i that met an exhausted iterator
ExhaustedPullOn(i) ==
    /\ pass = "active"
    /\ count # num_batches
    /\ IterIndex = i
    /\ lastPull'.idx = i
    /\ lastPull'.round = count
    /\ lastPull'.recreated = 1

AbandonStep == pass = "active" /\ pass' = "idle"

\* what holds of a pass by the round it began with
PassByStart ==
    /\ pass \in {"active", "error"} =>
          /\ count = passStart + yielded
          /\ current_epoch = passEpoch
    /\ pass = "ended" =>
          /\ yielded = num_batches - passStart
          /\ count = 0
          /\ current_epoch = passEpoch + 1

\* C25: the round persists across passes: the start of a pass and its
\* abandonment leave round and epoch as they are, and the epoch changes only
\* in a step of a running pass taken with round = totalBatches. After the
\* totalBatches-th batch the pass holds round = totalBatches with the epoch
\* not yet incremented; a pass begun with round = k yields totalBatches - k
\* batches before its boundary, none when k = totalBatches
C25_RoundPersists ==
    /\ []PassByStart
    /\ [][/\ (StartStep \/ AbandonStep) => UNCHANGED <<count, current_epoch>>
          /\ StartStep => passStart' = count
          /\ current_epoch' # current_epoch =>
                /\ pass = "active"
                /\ count = num_batches
                /\ BoundaryStep]_vars

\* a pass begun right after the last batch of an abandoned pass, with
\* round = totalBatches, has ended at the boundary without a batch
C25_Witness ==
    /\ pass = "ended"
    /\ num_batches > 0
    /\ passStart = num_batches
    /\ yielded = 0
    /\ ~emptyFresh
    /\ current_epoch = passEpoch + 1
====
